---------------------------- MODULE Spec2Model ----------------------------
(***************************************************************************)
(* Model of the MicroEJ LLEVENT event queue over ThreadX                   *)
(* (src/src/main/c/src/LLEVENT.c and LLEVENT_impl.c).                      *)
(*                                                                         *)
(* Producers (native tasks) call LLEVENT_offerEvent and                    *)
(* LLEVENT_offerExtendedEvent; one consumer (the Java event pump) calls    *)
(* LLEVENT_IMPL_wait_event and, for an extended event, the                 *)
(* start_read / read_* / skip_bytes / end_read functions.                  *)
(*                                                                         *)
(* A 32-bit word is the set of the positions of its 1 bits (0 is the       *)
(* least significant bit): `|` is union, `&` is intersection and a shift   *)
(* moves the positions and drops those that leave 0..31.  Byte counters    *)
(* (uint32_t in the code) are integers; a difference of two of them is     *)
(* kept as the signed residue of the uint32_t result, so that -1 stands    *)
(* for 0xFFFFFFFF, and is compared with U32Lt.                             *)
(***************************************************************************)
EXTENDS Integers, Sequences, FiniteSets, TLC

\* ------------------------------------------------------------------------
\* Bounds of the model
\* ------------------------------------------------------------------------

\* Number of producer tasks.
NumProducers == 2
\* Total number of offer calls made by the producers in one behaviour.
MaxOffers == 2
\* Capacity of event_queue, in words.
QueueCapacity == 3
\* Largest data_length of an offered extended event, in bytes.
MaxLen == 5
\* Number of resumes of the consumer thread that do not come from a producer.
MaxSpurious == 1
\* Largest argument of skip_bytes, and the length of the array given to read.
MaxSkip == 3
ArrayLength == 3
\* The reader is followed until offset_extended_data_read passes MaxRead.
MaxRead == 12
\* The same for the sequential specification SpecRead.
ReadMaxOffers == 2
ReadQueueCapacity == 4
ReadMaxLen == 8
\* The same for the specification of short events SpecShort.
ShortMaxOffers == 2
ShortQueueCapacity == 2
\* Number of calls of a burst of short events, and the capacity of its queue.
BurstMaxOffers == 3

Producers == 1..NumProducers

\* ------------------------------------------------------------------------
\* 32-bit words
\* ------------------------------------------------------------------------

WordBits == 0..31

\* The uint32_t whose value is n, 0 <= n < 2^31.
ToBits(n) == {i \in 0..30 : (n \div (2^i)) % 2 = 1}

RECURSIVE FromBits(_)
\* The value of a word whose bit 31 is clear.
FromBits(s) == IF s = {} THEN 0
               ELSE LET i == CHOOSE j \in s : TRUE
                    IN  2^i + FromBits(s \ {i})

BitOr(a, b) == a \cup b
BitAnd(a, b) == a \cap b
ShiftLeft(a, k) == {i + k : i \in a} \cap WordBits
ShiftRight(a, k) == {i - k : i \in a} \cap WordBits

\* Conversion of a value to a signed integer type of `width` bits (jbyte,
\* jshort, jint): the low `width` bits, two's complement.
ToSigned(s, width) ==
    LET low == {i \in s : i < width - 1}
    IN  IF (width - 1) \in s THEN FromBits(low) - 2^(width - 2) - 2^(width - 2)
        ELSE FromBits(low)

\* Unsigned comparison of two uint32_t values given by their signed residues.
U32Lt(a, b) == IF (a < 0) = (b < 0) THEN a < b ELSE b < 0

BYTE_ONE_MASK == 0..7
BYTE_TWO_MASK == 8..15
BYTE_THREE_MASK == 16..23
BYTE_FOUR_MASK == 24..31
BYTE_TWO_SHIFT == 8
BYTE_THREE_SHIFT == 16
BYTE_FOUR_SHIFT == 24
SHORT_ONE_MASK == 0..15
SHORT_TWO_MASK == 16..31
SHORT_TWO_SHIFT == 16

DATA_LENGTH_MASK == ToBits(16777215)
MAX_TYPE_ID == 128

SNI_ERROR == -1
\* SNI_getCurrentJavaThreadID() of the event pump thread.
JavaThreadID == 1

JTRUE == 1
JFALSE == 0
EVENT_OK == 0
EVENT_NOK == -1

\* ------------------------------------------------------------------------
\* Inputs
\* ------------------------------------------------------------------------

\* Byte k of the memory block a producer passes as data: two contents.
PatternByte(pat, k) == IF pat = 1 THEN k % 256 ELSE (255 - k) % 256

\* The arguments the producers draw from, and the number of calls they make:
\* short |-> (type, data) of LLEVENT_offerEvent, types, lens and patterns |->
\* type, data_length and data of LLEVENT_offerExtendedEvent.  Type 128 and
\* data 2^24 are invalid arguments.
Inputs ==
    [short |-> {<<127, 16777215>>, <<128, 1>>},
     types |-> {127}, lens |-> {0, MaxLen}, patterns |-> {1},
     max |-> MaxOffers]
ReadNextInputs ==
    [short |-> {<<5, 66051>>},
     types |-> {127}, lens |-> {3, 8}, patterns |-> {1},
     max |-> ReadMaxOffers]
ReadInputs ==
    [short |-> {<<5, 66051>>, <<1, 16777216>>},
     types |-> {127, 128}, lens |-> 0..ReadMaxLen, patterns |-> {1, 2},
     max |-> ReadMaxOffers]

\* ceil(data_length / sizeof(int)), line 200.
WordCount(data_length) == (data_length + 3) \div 4

\* The memory read through event_data[0 .. WordCount-1]: the data_length bytes
\* of the payload and the bytes that follow them up to the word boundary.
Memory(pat, data_length) ==
    [k \in 0..(4 * WordCount(data_length) - 1) |-> PatternByte(pat, k)]

\* The word at byte offset i of the block instead of word i.
EventData_ByteIndex(mem, i) ==
    UNION {ShiftLeft(ToBits(mem[i + j]), 8 * j) : j \in 0..3}

\* event_data[i]: the int32_t at byte offset 4i of the block (little-endian
\* target: byte 0 of a word is its bits 0..7).
EventData(mem, i) ==
    UNION {ShiftLeft(ToBits(mem[4 * i + j]), 8 * j) : j \in 0..3}

\* ------------------------------------------------------------------------
\* State
\* ------------------------------------------------------------------------

VARIABLES
    \* ThreadX objects and the statics of LLEVENT_impl.c
    event_queue,                    \* the words in the queue, oldest first
    tx_queue_capacity,              \* the number of words the queue holds
    mutex_send_event,               \* 0, or the producer that owns the mutex
    waiting_receive_java_thread_id,
    data_length_extended_data,
    offset_extended_data_read,
    buffer_extended_data,
    offset_buffer_extended_data,
    first_long_value,
    data_alignment,
    \* SNI state of the event pump thread: a resume that found it running
    resume_pending,
    \* producers: position, locals of the running call, value returned
    pc, frame, status,
    \* consumer: position, event_message of wait_event
    cpc, event_message,
    \* history: the calls made, the resumes delivered from outside, what the
    \* reader of the current extended event has done
    offers, spurious, rd

queueVars == <<event_queue, tx_queue_capacity, mutex_send_event, waiting_receive_java_thread_id,
               resume_pending>>
decoderVars == <<data_length_extended_data, offset_extended_data_read,
                 buffer_extended_data, offset_buffer_extended_data,
                 first_long_value, data_alignment>>
producerVars == <<pc, frame, status, offers>>
consumerVars == <<cpc, event_message, rd>>
vars == <<queueVars, decoderVars, producerVars, consumerVars, spurious>>

\* History of the reader: ev and src, the call that offered the event whose
\* first word wait_event received (0: the word was not a first word);
\* complete, its payload words were all sent when start_read was called; ok,
\* no call failed since; typed, the calls were typed reads, bytes, they were
\* reads of one byte; skips, they were calls of skip_bytes; sum, the sizes
\* of the typed reads; words, the words
\* the calls dequeued, foreign, one of them was not the next payload word of
\* the event; ended, end_read was called.
\*
\* A queue entry is the word and, as history, the event it belongs to (the
\* number of the offer call), its place in it (0: header or short event
\* word, i + 1: event_data[i]) and, with the first word, the arguments of
\* the call.
Entry(w, ev, ix, src) == [w |-> w, ev |-> ev, ix |-> ix, src |-> src]

NoFrame == [fn |-> "none"]
NoRead == [ev |-> 0, src |-> <<>>, complete |-> FALSE, ok |-> TRUE,
           typed |-> TRUE, bytes |-> TRUE, skips |-> TRUE, sum |-> 0,
           words |-> 0, foreign |-> FALSE, ended |-> FALSE]

\* ------------------------------------------------------------------------
\* External primitives (ThreadX queue, SNI thread suspension)
\* ------------------------------------------------------------------------

\* tx_queue_info_get: available_storage.
AvailableStorage(q) == tx_queue_capacity - Len(q)

\* A queue that takes every word.
QueueSendOk_Always(q) == TRUE

\* A queue that refuses the word that would fill it.
QueueSendOk_OneLess(q) == Len(q) < tx_queue_capacity - 1

\* tx_queue_send(..., TX_NO_WAIT) succeeds iff the queue is not full.
QueueSendOk(q) == Len(q) < tx_queue_capacity

\* SNI_resumeJavaThread(id) == SNI_ERROR iff id is not a Java thread.
ResumeFails(id) == id # JavaThreadID

\* Effect of SNI_resumeJavaThread(id) on the event pump thread: a suspended
\* thread runs its callback (LLEVENT_IMPL_wait_event); otherwise the resume
\* stays pending and the next suspend request does not pause the thread.
ResumedCpc(id) ==
    IF ~ResumeFails(id) /\ cpc = "suspended" THEN "wait_271" ELSE cpc
ResumedPending(id) ==
    IF ~ResumeFails(id) /\ cpc # "suspended" THEN TRUE ELSE resume_pending

\* ------------------------------------------------------------------------
\* Initial state: after LLEVENT_IMPL_initialize, which creates a queue of
\* `capacity` words; the event pump is about to call wait_event.
\* ------------------------------------------------------------------------

Initialized(capacity) ==
    /\ event_queue = <<>>
    /\ tx_queue_capacity = capacity
    /\ mutex_send_event = 0
    /\ waiting_receive_java_thread_id = SNI_ERROR
    /\ data_length_extended_data = 0
    /\ offset_extended_data_read = 0
    /\ buffer_extended_data = {}
    /\ offset_buffer_extended_data = -1
    /\ first_long_value = {}
    /\ data_alignment = 0
    /\ resume_pending = FALSE
    /\ pc = [p \in Producers |-> "idle"]
    /\ frame = [p \in Producers |-> NoFrame]
    /\ status = [p \in Producers |-> "none"]
    /\ cpc = "wait_271"
    /\ event_message = {}
    /\ offers = 0
    /\ spurious = 0
    /\ rd = NoRead

\* ------------------------------------------------------------------------
\* Producers: LLEVENT.c
\* ------------------------------------------------------------------------

\* check_parameters of LLEVENT_offerEvent / LLEVENT_offerExtendedEvent.
CheckParameters(type, data) ==
    /\ type >= 0
    /\ type < MAX_TYPE_ID
    /\ BitAnd(ToBits(data), DATA_LENGTH_MASK) = ToBits(data)

\* The message of line 145 with the type one bit lower.
ShortMessage_Shift23(type, data) ==
    BitAnd(BitOr(ShiftLeft(ToBits(type), 23), ToBits(data)), 0..30)

\* event_message of LLEVENT_IMPL_offer_event, line 145.
ShortMessage(type, data) ==
    BitAnd(BitOr(ShiftLeft(ToBits(type), 24), ToBits(data)), 0..30)

\* event_message of LLEVENT_IMPL_offer_extended_event, line 192.
ExtendedMessage(type, data_length) ==
    BitOr(BitOr(ShiftLeft({0}, 31), ShiftLeft(ToBits(type), 24)),
          ToBits(data_length))

\* LLEVENT_offerEvent(type, data): the argument check, then the call of
\* LLEVENT_IMPL_offer_event up to its tx_mutex_get.
OfferEventCall(p, in) ==
    /\ pc[p] = "idle"
    /\ offers < in.max
    /\ offers' = offers + 1
    /\ \E a \in in.short :
        IF CheckParameters(a[1], a[2])
        THEN /\ pc' = [pc EXCEPT ![p] = "get"]
             /\ frame' = [frame EXCEPT ![p] =
                           [fn |-> "offer_event",
                            type |-> a[1], data |-> a[2],
                            event_message |-> ShortMessage(a[1], a[2]),
                            offer_status |-> JTRUE,
                            ev |-> offers + 1, sent |-> <<>>,
                            room |-> "unknown", resumed |-> 0]]
             /\ status' = [status EXCEPT ![p] = "none"]
        ELSE /\ status' = [status EXCEPT ![p] = "ERR_WRONG_ARGS"]
             /\ UNCHANGED <<tx_queue_capacity, pc, frame>>
    /\ UNCHANGED <<queueVars, decoderVars, consumerVars, spurious>>

\* LLEVENT_offerExtendedEvent(type, data, data_length), likewise.
OfferExtendedEventCall(p, in) ==
    /\ pc[p] = "idle"
    /\ offers < in.max
    /\ offers' = offers + 1
    /\ \E type \in in.types, n \in in.lens, pat \in in.patterns :
        IF CheckParameters(type, n)
        THEN /\ pc' = [pc EXCEPT ![p] = "get"]
             /\ frame' = [frame EXCEPT ![p] =
                           [fn |-> "offer_extended_event",
                            type |-> type, data_length |-> n,
                            event_message |-> ExtendedMessage(type, n),
                            event_data |-> Memory(pat, n),
                            data_length_int |-> WordCount(n),
                            offer_status |-> JTRUE, i |-> 0,
                            ev |-> offers + 1, sent |-> <<>>,
                            room |-> "unknown", resumed |-> 0]]
             /\ status' = [status EXCEPT ![p] = "none"]
        ELSE /\ status' = [status EXCEPT ![p] = "ERR_WRONG_ARGS"]
             /\ UNCHANGED <<tx_queue_capacity, pc, frame>>
    /\ UNCHANGED <<queueVars, decoderVars, consumerVars, spurious>>

\* ------------------------------------------------------------------------
\* Producers: LLEVENT_IMPL_offer_event and LLEVENT_IMPL_offer_extended_event
\* ------------------------------------------------------------------------

\* History: the arguments of the call of frame f.
Source(f) ==
    IF f.fn = "offer_event"
    THEN [fn |-> f.fn, type |-> f.type, data |-> f.data]
    ELSE [fn |-> f.fn, type |-> f.type, data_length |-> f.data_length,
          data |-> f.event_data]

\* A mutex that excludes nobody.
MutexFree_Always == TRUE

\* tx_mutex_get(&mutex_send_event, TX_WAIT_FOREVER) returns when the mutex
\* is free.
MutexFree == mutex_send_event = 0

\* The test of line 215 without the slot of the header word.
NotEnoughSpace_PayloadOnly(available_storage, data_length_int) ==
    available_storage < data_length_int

\* The test of line 215.
NotEnoughSpace(available_storage, data_length_int) ==
    available_storage < data_length_int + 1

\* The condition of the notification, lines 161 and 242.
NotifyCondition(fn, id, offer_status) ==
    IF fn = "offer_event"
    THEN id # SNI_ERROR /\ offer_status = JTRUE
    ELSE id # SNI_ERROR

\* Lines 148 and 203.
MutexGet(p) ==
    /\ pc[p] = "get"
    /\ MutexFree
    /\ mutex_send_event' = p
    /\ pc' = [pc EXCEPT ![p] =
                IF frame[p].fn = "offer_event" THEN "send" ELSE "info"]
    /\ UNCHANGED <<tx_queue_capacity, event_queue, waiting_receive_java_thread_id, resume_pending,
                   frame, status, offers,
                   decoderVars, consumerVars, spurious>>

\* offer_event, lines 154-158: the single tx_queue_send.
Send(p) ==
    /\ pc[p] = "send"
    /\ IF QueueSendOk(event_queue)
       THEN /\ event_queue' = Append(event_queue,
                                 Entry(frame[p].event_message, frame[p].ev, 0,
                                       Source(frame[p])))
            /\ frame' = [frame EXCEPT ![p].sent =
                                 Append(@, frame[p].event_message)]
       ELSE /\ frame' = [frame EXCEPT ![p].offer_status = JFALSE]
            /\ UNCHANGED event_queue
    /\ pc' = [pc EXCEPT ![p] = "test"]
    /\ UNCHANGED <<tx_queue_capacity, mutex_send_event, waiting_receive_java_thread_id,
                   resume_pending, status, offers,
                   decoderVars, consumerVars, spurious>>

\* History of an offer_extended_event call: when it asked the queue for its
\* free slots, were there enough for the header and ceil(length / 4) words.
Room(p) ==
    IF tx_queue_capacity - Len(event_queue)
         >= 1 + (frame[p].data_length + 3) \div 4
    THEN "enough" ELSE "short"

\* offer_extended_event, lines 209-217: the room for header and payload.
InfoGet(p) ==
    /\ pc[p] = "info"
    /\ IF NotEnoughSpace(AvailableStorage(event_queue), frame[p].data_length_int)
       THEN /\ frame' = [frame EXCEPT ![p].offer_status = JFALSE,
                                      ![p].room = Room(p)]
            /\ pc' = [pc EXCEPT ![p] = "test"]
       ELSE /\ frame' = [frame EXCEPT ![p].room = Room(p)]
            /\ pc' = [pc EXCEPT ![p] = "send_header"]
    /\ UNCHANGED <<queueVars, status, offers,
                   decoderVars, consumerVars, spurious>>

\* offer_extended_event, lines 220-226: the header word.
SendHeader(p) ==
    /\ pc[p] = "send_header"
    /\ IF QueueSendOk(event_queue)
       THEN /\ event_queue' = Append(event_queue,
                                 Entry(frame[p].event_message, frame[p].ev, 0,
                                       Source(frame[p])))
            /\ frame' = [frame EXCEPT ![p].sent =
                                 Append(@, frame[p].event_message)]
            /\ pc' = [pc EXCEPT ![p] =
                        IF frame[p].data_length_int > 0 THEN "send_data"
                        ELSE "test"]
       ELSE /\ frame' = [frame EXCEPT ![p].offer_status = JFALSE]
            /\ pc' = [pc EXCEPT ![p] = "test"]
            /\ UNCHANGED event_queue
    /\ UNCHANGED <<tx_queue_capacity, mutex_send_event, waiting_receive_java_thread_id,
                   resume_pending, status, offers,
                   decoderVars, consumerVars, spurious>>

\* offer_extended_event, lines 229-239: one turn of the loop; a failed send
\* clears offer_status and the loop goes on.
SendData(p) ==
    /\ pc[p] = "send_data"
    /\ LET f == frame[p]
           w == EventData(f.event_data, f.i)
           more == f.i + 1 < f.data_length_int
       IN  /\ IF QueueSendOk(event_queue)
              THEN /\ event_queue' = Append(event_queue,
                                           Entry(w, f.ev, f.i + 1, <<>>))
                   /\ frame' = [frame EXCEPT ![p].sent = Append(@, w),
                                             ![p].i = @ + 1]
              ELSE /\ frame' = [frame EXCEPT ![p].offer_status = JFALSE,
                                             ![p].i = @ + 1]
                   /\ UNCHANGED event_queue
           /\ pc' = [pc EXCEPT ![p] = IF more THEN "send_data" ELSE "test"]
    /\ UNCHANGED <<tx_queue_capacity, mutex_send_event, waiting_receive_java_thread_id,
                   resume_pending, status, offers,
                   decoderVars, consumerVars, spurious>>

\* Lines 161 and 242: is a Java thread registered.
TestWaiting(p) ==
    /\ pc[p] = "test"
    /\ pc' = [pc EXCEPT ![p] =
                IF NotifyCondition(frame[p].fn, waiting_receive_java_thread_id,
                                   frame[p].offer_status)
                THEN "resume" ELSE "put"]
    /\ UNCHANGED <<queueVars, frame, status, offers,
                   decoderVars, consumerVars, spurious>>

\* Lines 162 and 243: SNI_resumeJavaThread(waiting_receive_java_thread_id).
\* The variable is not volatile and wait_event writes it without the mutex:
\* the argument is the value the test of line 161 read (the id of the event
\* pump thread, the only one ever written) or the value read again.
Resume(p) ==
    /\ pc[p] = "resume"
    /\ \E id \in {JavaThreadID, waiting_receive_java_thread_id} :
         /\ cpc' = ResumedCpc(id)
         /\ resume_pending' = ResumedPending(id)
         /\ frame' = [frame EXCEPT ![p].resumed =
                         IF ResumeFails(id) THEN SNI_ERROR ELSE @ + 1]
    /\ pc' = [pc EXCEPT ![p] = "clear"]
    /\ UNCHANGED <<tx_queue_capacity, event_queue, mutex_send_event,
                   waiting_receive_java_thread_id, status, offers,
                   decoderVars, event_message, rd, spurious>>

\* Lines 166/168 and 247/249, were the producer to rewind the decoder along
\* with the registration.
ClearWaiting_ResetsDecoder(p) ==
    /\ pc[p] = "clear"
    /\ waiting_receive_java_thread_id' = SNI_ERROR
    /\ offset_extended_data_read' = 0
    /\ pc' = [pc EXCEPT ![p] = "put"]
    /\ UNCHANGED <<tx_queue_capacity, event_queue, mutex_send_event, resume_pending,
                   frame, status, offers,
                   data_length_extended_data, buffer_extended_data,
                   offset_buffer_extended_data, first_long_value,
                   data_alignment, consumerVars, spurious>>

\* Lines 166/168 and 247/249.
ClearWaiting(p) ==
    /\ pc[p] = "clear"
    /\ waiting_receive_java_thread_id' = SNI_ERROR
    /\ pc' = [pc EXCEPT ![p] = "put"]
    /\ UNCHANGED <<tx_queue_capacity, event_queue, mutex_send_event, resume_pending,
                   frame, status, offers,
                   decoderVars, consumerVars, spurious>>

\* Lines 173-178 and 254-259 without the tx_mutex_put.
MutexPut_KeepsMutex(p) ==
    /\ pc[p] = "put"
    /\ pc' = [pc EXCEPT ![p] = "idle"]
    /\ status' = [status EXCEPT ![p] =
                    IF frame[p].offer_status = JTRUE THEN "NO_ERR"
                    ELSE "ERR_FIFO_FULL"]
    /\ frame' = [frame EXCEPT ![p] = NoFrame]
    /\ UNCHANGED <<tx_queue_capacity, event_queue, mutex_send_event,
                   waiting_receive_java_thread_id, resume_pending, offers,
                   decoderVars, consumerVars, spurious>>

\* Lines 173-178 and 254-259, and the status LLEVENT_offer* returns.
MutexPut(p) ==
    /\ pc[p] = "put"
    /\ mutex_send_event' = 0
    /\ pc' = [pc EXCEPT ![p] = "idle"]
    /\ status' = [status EXCEPT ![p] =
                    IF frame[p].offer_status = JTRUE THEN "NO_ERR"
                    ELSE "ERR_FIFO_FULL"]
    /\ frame' = [frame EXCEPT ![p] = NoFrame]
    /\ UNCHANGED <<tx_queue_capacity, event_queue, waiting_receive_java_thread_id, resume_pending,
                   offers,
                   decoderVars, consumerVars, spurious>>

\* A step of a call in progress.
ProducerStep(p) ==
    \/ MutexGet(p)
    \/ Send(p)
    \/ InfoGet(p)
    \/ SendHeader(p)
    \/ SendData(p)
    \/ TestWaiting(p)
    \/ Resume(p)
    \/ ClearWaiting(p)
    \/ MutexPut(p)

\* ------------------------------------------------------------------------
\* Consumer: LLEVENT_IMPL_wait_event
\* ------------------------------------------------------------------------

\* Line 271.
WaitRegister ==
    /\ cpc = "wait_271"
    /\ waiting_receive_java_thread_id' = JavaThreadID
    /\ cpc' = "wait_276"
    /\ UNCHANGED <<tx_queue_capacity, event_queue, mutex_send_event, resume_pending,
                   decoderVars, producerVars, event_message, rd, spurious>>

\* Line 276: tx_queue_receive(..., TX_NO_WAIT).
WaitReceive ==
    /\ cpc = "wait_276"
    /\ IF event_queue # <<>>
       THEN /\ event_message' = Head(event_queue).w
            /\ rd' = IF Head(event_queue).ix = 0
                      THEN [NoRead EXCEPT !.ev = Head(event_queue).ev,
                                          !.src = Head(event_queue).src]
                      ELSE NoRead
            /\ event_queue' = Tail(event_queue)
            /\ cpc' = "wait_289"
       ELSE /\ cpc' = "wait_278"
            /\ UNCHANGED <<tx_queue_capacity, event_queue, event_message, rd>>
    /\ UNCHANGED <<tx_queue_capacity, mutex_send_event, waiting_receive_java_thread_id,
                   resume_pending, decoderVars, producerVars, spurious>>

\* Line 278: SNI_suspendCurrentJavaThreadWithCallback and the return of the
\* native: the thread pauses until it is resumed, unless a resume is
\* pending; either way the callback LLEVENT_IMPL_wait_event runs next.
WaitSuspend ==
    /\ cpc = "wait_278"
    /\ IF resume_pending
       THEN /\ resume_pending' = FALSE
            /\ cpc' = "wait_271"
       ELSE /\ cpc' = "suspended"
            /\ UNCHANGED resume_pending
    /\ UNCHANGED <<tx_queue_capacity, event_queue, mutex_send_event,
                   waiting_receive_java_thread_id, decoderVars, producerVars,
                   event_message, rd, spurious>>

\* The word is an extended event header: bit 31.
IsExtended(w) == 31 \in w

\* Lines 289-292 without the assignment of line 289.
WaitReturn_KeepsSlot ==
    /\ cpc = "wait_289"
    /\ cpc' = IF IsExtended(event_message) THEN "start_read" ELSE "wait_271"
    /\ UNCHANGED <<tx_queue_capacity, event_queue, mutex_send_event, resume_pending,
                   waiting_receive_java_thread_id,
                   decoderVars, producerVars, event_message, rd, spurious>>

\* Lines 289-292: the slot is cleared and event_message returned to the
\* event pump, which reads an extended event or waits for the next event.
WaitReturn ==
    /\ cpc = "wait_289"
    /\ waiting_receive_java_thread_id' = SNI_ERROR
    /\ cpc' = IF IsExtended(event_message) THEN "start_read" ELSE "wait_271"
    /\ UNCHANGED <<tx_queue_capacity, event_queue, mutex_send_event, resume_pending,
                   decoderVars, producerVars, event_message, rd, spurious>>

\* A resume of the event pump thread that no producer requested.
SpuriousResume ==
    /\ spurious < MaxSpurious
    /\ spurious' = spurious + 1
    /\ cpc' = ResumedCpc(JavaThreadID)
    /\ resume_pending' = ResumedPending(JavaThreadID)
    /\ UNCHANGED <<tx_queue_capacity, event_queue, mutex_send_event,
                   waiting_receive_java_thread_id, decoderVars, producerVars,
                   event_message, rd>>

\* ------------------------------------------------------------------------
\* Consumer: the reader of an extended event.  Each native function is a
\* function of the decoder state d (the statics, the queue, and what the call
\* gives back: ret, the exception it raised, the entries it dequeued).  The
\* queue operations of one call are not interleaved with the producers: a
\* send only appends behind the words the call receives, so every outcome of
\* an interleaving is the outcome of the call run after or before the send.
\* ------------------------------------------------------------------------

\* The decoder state at the entry of a native call.  skip_bytes_counter is
\* written by LLEVENT_IMPL_skip_bytes before it is read and by nothing else:
\* it is kept for the time of the call.
Decoder ==
    [event_queue |-> event_queue,
     data_length_extended_data |-> data_length_extended_data,
     offset_extended_data_read |-> offset_extended_data_read,
     buffer_extended_data |-> buffer_extended_data,
     offset_buffer_extended_data |-> offset_buffer_extended_data,
     first_long_value |-> first_long_value,
     skip_bytes_counter |-> 0,
     data_alignment |-> data_alignment,
     ret |-> 0, exc |-> FALSE, deq |-> <<>>]

\* SNI_throwNativeIOException, and the value the function then returns.
Throw(d, v) == [d EXCEPT !.exc = TRUE, !.ret = v]

\* LLEVENT_IMPL_available, lines 515-517.
LLEVENT_IMPL_available(d) ==
    d.data_length_extended_data - d.offset_extended_data_read

\* A successful tx_queue_receive into buffer_extended_data, with the
\* assignments of lines 554-557 and 630-633.
ReceiveIntoBuffer(d) ==
    [d EXCEPT !.buffer_extended_data = Head(d.event_queue).w,
              !.event_queue = Tail(@),
              !.deq = Append(@, Head(d.event_queue)),
              !.offset_buffer_extended_data = 0,
              !.data_alignment = IF @ = 0 THEN 1 ELSE 0]

\* A tx_queue_receive into a local that leaves data_alignment as it was.
ReceiveWord_NoSwitch(d) ==
    [d EXCEPT !.event_queue = Tail(@),
              !.deq = Append(@, Head(d.event_queue)),
              !.offset_extended_data_read = @ + 4]

\* A successful tx_queue_receive into a local, with the switch of the
\* alignment and the 4 bytes added to offset_extended_data_read.
ReceiveWord(d) ==
    [d EXCEPT !.event_queue = Tail(@),
              !.deq = Append(@, Head(d.event_queue)),
              !.offset_extended_data_read = @ + 4,
              !.data_alignment = IF @ = 0 THEN 1 ELSE 0]

\* The bytes of the buffer taken from the most significant one.
ByteAt_BigEndian(buffer, offset) ==
    ShiftRight(BitAnd(buffer, (24 - 8 * offset)..(31 - 8 * offset)),
               24 - 8 * offset)

\* Lines 567-580: the byte of buffer_extended_data at the offset.
ByteAt(buffer, offset) ==
    IF offset = 0 THEN BitAnd(buffer, BYTE_ONE_MASK)
    ELSE IF offset = 1
         THEN ShiftRight(BitAnd(buffer, BYTE_TWO_MASK), BYTE_TWO_SHIFT)
    ELSE IF offset = 2
         THEN ShiftRight(BitAnd(buffer, BYTE_THREE_MASK), BYTE_THREE_SHIFT)
    ELSE ShiftRight(BitAnd(buffer, BYTE_FOUR_MASK), BYTE_FOUR_SHIFT)

\* Lines 652-659: the short of buffer_extended_data at the offset.
ShortAt(buffer, offset) ==
    IF offset = 0 THEN BitAnd(buffer, SHORT_ONE_MASK)
    ELSE ShiftRight(BitAnd(buffer, SHORT_TWO_MASK), SHORT_TWO_SHIFT)

\* An availability test that lets a read of one byte too many through.
Underflow_OffByOne(d, size) == U32Lt(LLEVENT_IMPL_available(d), size - 1)

\* The availability tests of lines 523, 595, 673 and 721.
Underflow(d, size) == U32Lt(LLEVENT_IMPL_available(d), size)

\* read_one_byte, lines 520-589.
read_one_byte(d) ==
    IF Underflow(d, 1) THEN Throw(d, JFALSE)
    ELSE
      LET refill == \/ d.offset_buffer_extended_data = -1
                    \/ d.offset_buffer_extended_data >= 4
      IN  IF refill /\ d.event_queue = <<>> THEN Throw(d, JFALSE)
          ELSE
            LET d1 == IF refill THEN ReceiveIntoBuffer(d) ELSE d
            IN  [d1 EXCEPT
                   !.ret = ToSigned(ByteAt(d1.buffer_extended_data,
                                           d1.offset_buffer_extended_data), 8),
                   !.offset_buffer_extended_data = @ + 1,
                   !.offset_extended_data_read = @ + 1]

\* read_two_bytes, lines 592-667.
read_two_bytes(d) ==
    IF Underflow(d, 2) THEN Throw(d, JFALSE)
    ELSE
      LET refill == \/ d.offset_buffer_extended_data = -1
                    \/ d.offset_buffer_extended_data >= 3
          \* lines 614-616: the byte left in the buffer is counted as read
          d0 == IF refill /\ d.offset_buffer_extended_data = 3
                THEN [d EXCEPT !.offset_extended_data_read = @ + 1]
                ELSE d
      IN  IF refill /\ d.event_queue = <<>> THEN Throw(d0, JFALSE)
          ELSE
            LET d1 == IF refill THEN ReceiveIntoBuffer(d0) ELSE d0
                \* lines 642-645: alignment on 2 bytes
                d2 == IF d1.offset_buffer_extended_data = 1
                      THEN [d1 EXCEPT !.offset_buffer_extended_data = 2,
                                      !.offset_extended_data_read = @ + 1]
                      ELSE d1
            IN  [d2 EXCEPT
                   !.ret = ToSigned(ShortAt(d2.buffer_extended_data,
                                            d2.offset_buffer_extended_data), 16),
                   !.offset_extended_data_read = @ + 2,
                   !.offset_buffer_extended_data = @ + 2]

\* The buffer reset without counting the bytes it still held.
DropBuffer_Uncounted(d) ==
    [d EXCEPT !.buffer_extended_data = {},
              !.offset_buffer_extended_data = -1]

\* Lines 688-693 and 745-750: the rest of the buffered word is padding.
DropBuffer(d) ==
    LET d1 == IF /\ d.offset_buffer_extended_data # -1
                 /\ d.offset_buffer_extended_data < 4
              THEN [d EXCEPT !.offset_extended_data_read =
                                @ + (4 - d.offset_buffer_extended_data)]
              ELSE d
    IN  [d1 EXCEPT !.buffer_extended_data = {},
                   !.offset_buffer_extended_data = -1]

\* read_four_bytes, lines 670-712.
read_four_bytes(d) ==
    IF Underflow(d, 4) THEN Throw(d, JFALSE)
    ELSE
      LET d1 == DropBuffer(d)
      IN  IF d1.event_queue = <<>> THEN Throw(d1, JFALSE)
          ELSE [ReceiveWord(d1) EXCEPT
                   !.ret = ToSigned(Head(d1.event_queue).w, 32)]

\* The two halves the other way round.
LongValue_Swapped(low, high) == high \cup {i + 32 : i \in low}

\* event_long.long_value of lines 805-807: int_values[0] is the low half.
LongValue(low, high) == low \cup {i + 32 : i \in high}

\* read_eight_bytes, lines 715-814.  The value returned is the 64-bit
\* pattern, as the set of its 1 bits; 0 is the empty set.
read_eight_bytes(d) ==
    IF Underflow(d, 8) THEN Throw(d, {})
    ELSE
      LET d1 == DropBuffer(d)
          d2 == [d1 EXCEPT !.ret = {}]
      IN  \* lines 753-768: a word is skipped when not 8 bytes aligned
          IF d2.data_alignment # 1 /\ d2.event_queue = <<>>
          THEN Throw(d2, {})
          ELSE
            LET d3 == IF d2.data_alignment # 1 THEN ReceiveWord(d2) ELSE d2
            IN  \* lines 772-787: the first word
                IF d3.event_queue = <<>> THEN Throw(d3, {})
                ELSE
                  LET d4 == [ReceiveWord(d3) EXCEPT
                               !.first_long_value = Head(d3.event_queue).w]
                  IN  \* lines 792-808: the second word
                      IF d4.event_queue = <<>> THEN Throw(d4, {})
                      ELSE [ReceiveWord(d4) EXCEPT
                               !.ret = LongValue(d4.first_long_value,
                                                 Head(d4.event_queue).w)]

RECURSIVE SkipLoop(_, _)
\* The loop of lines 491-505; an exception of read_one_byte is cleared.
SkipLoop(d, n) ==
    IF ~U32Lt(d.skip_bytes_counter, n) THEN d
    ELSE LET r == read_one_byte(d)
         IN  IF r.exc THEN [r EXCEPT !.exc = FALSE, !.ret = EVENT_NOK]
             ELSE SkipLoop([r EXCEPT !.skip_bytes_counter = @ + 1], n)

\* A skip without the test of line 485: it skips what there is.
LLEVENT_IMPL_skip_bytes_Unchecked(d, n) ==
    SkipLoop([d EXCEPT !.skip_bytes_counter = 0, !.ret = EVENT_OK], n)

\* LLEVENT_IMPL_skip_bytes, lines 477-509.
LLEVENT_IMPL_skip_bytes(d, n) ==
    LET d0 == [d EXCEPT !.skip_bytes_counter = 0, !.ret = EVENT_OK]
    IN  IF U32Lt(LLEVENT_IMPL_available(d0), n)
        THEN [d0 EXCEPT !.ret = EVENT_NOK]
        ELSE SkipLoop(d0, n)

RECURSIVE ReadLoop(_, _, _)
\* The loop of lines 419-427; out is what was stored in b[off ..].
ReadLoop(d, i, len) ==
    IF i >= len THEN d
    ELSE LET r == read_one_byte([d EXCEPT !.ret = 0])
         IN  IF r.exc THEN [r EXCEPT !.ret = d.ret, !.out = d.out]
             ELSE ReadLoop([r EXCEPT !.out = Append(d.out, r.ret),
                                     !.ret = d.ret + 1], i + 1, len)

\* LLEVENT_IMPL_read, lines 387-431; array_length is SNI_getArrayLength(b).
LLEVENT_IMPL_read(d, array_length, off, len) ==
    LET d0 == [event_queue |-> d.event_queue,
               data_length_extended_data |-> d.data_length_extended_data,
               offset_extended_data_read |-> d.offset_extended_data_read,
               buffer_extended_data |-> d.buffer_extended_data,
               offset_buffer_extended_data |-> d.offset_buffer_extended_data,
               first_long_value |-> d.first_long_value,
               skip_bytes_counter |-> d.skip_bytes_counter,
               data_alignment |-> d.data_alignment,
               ret |-> 0, exc |-> FALSE, deq |-> d.deq, out |-> <<>>]
    IN  IF U32Lt(LLEVENT_IMPL_available(d0), len) THEN Throw(d0, 0)
        ELSE IF off + len > array_length THEN Throw(d0, 0)
        ELSE ReadLoop(d0, 0, len)

\* LLEVENT_IMPL_start_read_extended_data, lines 300-305.
LLEVENT_IMPL_start_read_extended_data(d, data_length) ==
    [d EXCEPT !.data_length_extended_data = data_length,
              !.offset_extended_data_read = 0,
              !.data_alignment = 1]

\* An end_read that leaves the buffer as the reads left it.
LLEVENT_IMPL_end_read_extended_data_KeepsBuffer(d) ==
    LET r == LLEVENT_IMPL_skip_bytes(d, LLEVENT_IMPL_available(d))
    IN  [r EXCEPT !.data_length_extended_data = 0,
                  !.offset_extended_data_read = 0]

\* LLEVENT_IMPL_end_read_extended_data, lines 311-323.
LLEVENT_IMPL_end_read_extended_data(d) ==
    LET r == LLEVENT_IMPL_skip_bytes(d, LLEVENT_IMPL_available(d))
    IN  [r EXCEPT !.data_length_extended_data = 0,
                  !.offset_extended_data_read = 0,
                  !.buffer_extended_data = {},
                  !.offset_buffer_extended_data = -1]

\* ------------------------------------------------------------------------
\* Consumer: the calls of the event pump while it reads an extended event
\* ------------------------------------------------------------------------

\* The statics and the queue after a native call that ended in state r.
Commit(r) ==
    /\ event_queue' = r.event_queue
    /\ data_length_extended_data' = r.data_length_extended_data
    /\ offset_extended_data_read' = r.offset_extended_data_read
    /\ buffer_extended_data' = r.buffer_extended_data
    /\ offset_buffer_extended_data' = r.offset_buffer_extended_data
    /\ first_long_value' = r.first_long_value
    /\ data_alignment' = r.data_alignment

\* History: some entry the call dequeued is not the next payload word of the
\* event being read.
Foreign(deq) ==
    \E k \in 1..Len(deq) :
        deq[k].ev # rd.ev \/ deq[k].ix # rd.words + k

\* History of the reader after a call of size `size` (0: not a typed read).
Track(r, size, failed, byteRead, skip) ==
    [rd EXCEPT !.ok = @ /\ ~failed,
               !.typed = @ /\ size > 0,
               !.bytes = @ /\ byteRead,
               !.skips = @ /\ skip,
               !.sum = IF rd.ok /\ rd.typed /\ ~failed /\ size > 0
                       THEN @ + size ELSE 0,
               !.words = @ + Len(r.deq),
               !.foreign = @ \/ Foreign(r.deq)]

\* The payload words of event ev have all been sent.
Complete(ev) ==
    ~\E p \in Producers :
        /\ frame[p].fn = "offer_extended_event"
        /\ frame[p].ev = ev
        /\ pc[p] \in {"send_header", "send_data"}

\* The event pump decodes the header it received and calls
\* LLEVENT_IMPL_start_read_extended_data with the length of the event.
StartRead ==
    /\ cpc = "start_read"
    /\ LET n == FromBits(BitAnd(event_message, DATA_LENGTH_MASK))
       IN  Commit(LLEVENT_IMPL_start_read_extended_data(Decoder, n))
    /\ rd' = [rd EXCEPT !.complete = rd.ev # 0 /\ Complete(rd.ev)]
    /\ cpc' = "reading"
    /\ UNCHANGED <<tx_queue_capacity, mutex_send_event, waiting_receive_java_thread_id,
                   resume_pending, producerVars, event_message, spurious>>

\* A typed read: the native `op`, which ends in state r and returns ret.
TypedRead(op, r, ret, size) ==
    /\ cpc = "reading"
    /\ r.offset_extended_data_read <= MaxRead
    /\ Commit(r)
    /\ rd' = Track(r, size, r.exc, size = 1, FALSE)
    /\ UNCHANGED <<tx_queue_capacity, cpc, mutex_send_event, waiting_receive_java_thread_id,
                   resume_pending, producerVars, event_message, spurious>>

\* LLEVENT_IMPL_read_byte, lines 337-339.
ReadByte ==
    LET r == read_one_byte(Decoder)
    IN  TypedRead("read_byte", r, r.ret, 1)

\* LLEVENT_IMPL_read_boolean and LLEVENT_IMPL_read_unsigned_byte, lines
\* 329-331 and 461-463: the cast to jboolean (uint8_t).
ReadUnsignedByte ==
    LET r == read_one_byte(Decoder)
    IN  TypedRead("read_unsigned_byte", r, r.ret % 256, 1)

\* LLEVENT_IMPL_read_short, lines 453-455.
ReadShort ==
    LET r == read_two_bytes(Decoder)
    IN  TypedRead("read_short", r, r.ret, 2)

\* LLEVENT_IMPL_read_char and LLEVENT_IMPL_read_unsigned_short, lines
\* 345-347 and 469-471: the cast to jchar (uint16_t).
ReadChar ==
    LET r == read_two_bytes(Decoder)
    IN  TypedRead("read_char", r, r.ret % 65536, 2)

\* LLEVENT_IMPL_read_int, lines 437-439, and LLEVENT_IMPL_read_float, lines
\* 370-381, which gives the same 32 bits as a jfloat.
ReadInt ==
    LET r == read_four_bytes(Decoder)
    IN  \/ TypedRead("read_int", r, r.ret, 4)
        \/ TypedRead("read_float", r, r.ret, 4)

\* LLEVENT_IMPL_read_long, lines 445-447, and LLEVENT_IMPL_read_double,
\* lines 353-364, which gives the same 64 bits as a jdouble.
ReadLong ==
    LET r == read_eight_bytes(Decoder)
    IN  \/ TypedRead("read_long", r, r.ret, 8)
        \/ TypedRead("read_double", r, r.ret, 8)

\* LLEVENT_IMPL_read, lines 387-431.
Read ==
    /\ cpc = "reading"
    /\ \E off \in 0..1, len \in 0..ArrayLength :
        LET r == LLEVENT_IMPL_read(Decoder, ArrayLength, off, len)
        IN  /\ Commit(r)
            /\ rd' = Track(r, 0, r.exc, FALSE, FALSE)
    /\ UNCHANGED <<tx_queue_capacity, cpc, mutex_send_event, waiting_receive_java_thread_id,
                   resume_pending, producerVars, event_message, spurious>>

\* LLEVENT_IMPL_skip_bytes, lines 477-509.
SkipBytes ==
    /\ cpc = "reading"
    /\ \E n \in 0..MaxSkip :
        LET r == LLEVENT_IMPL_skip_bytes(Decoder, n)
        IN  /\ Commit(r)
            /\ rd' = Track(r, 0, r.ret = EVENT_NOK, FALSE, TRUE)
    /\ UNCHANGED <<tx_queue_capacity, cpc, mutex_send_event, waiting_receive_java_thread_id,
                   resume_pending, producerVars, event_message, spurious>>

\* LLEVENT_IMPL_end_read_extended_data, lines 311-323; the event pump then
\* waits for the next event.
EndRead ==
    /\ cpc = "reading"
    /\ LET r == LLEVENT_IMPL_end_read_extended_data(Decoder)
       IN  /\ Commit(r)
           /\ rd' = [rd EXCEPT !.words = @ + Len(r.deq),
                               !.foreign = @ \/ Foreign(r.deq),
                               !.ended = TRUE]
    /\ cpc' = "wait_271"
    /\ UNCHANGED <<tx_queue_capacity, mutex_send_event, waiting_receive_java_thread_id,
                   resume_pending, producerVars, event_message, spurious>>

\* LLEVENT_IMPL_wait_event.
WaitStep ==
    \/ WaitRegister
    \/ WaitReceive
    \/ WaitSuspend
    \/ WaitReturn

\* Producers and consumer run concurrently; the event pump reads the bytes
\* and the ints of an extended event.
Next ==
    \/ \E p \in Producers :
        \/ OfferEventCall(p, Inputs)
        \/ OfferExtendedEventCall(p, Inputs)
        \/ ProducerStep(p)
    \/ WaitStep
    \/ StartRead
    \/ ReadByte
    \/ ReadInt
    \/ EndRead
    \/ SpuriousResume

Init == Initialized(QueueCapacity)

Spec == Init /\ [][Next]_vars

\* One producer, which runs while the event pump is not reading an extended
\* event: the reader on every payload, with an event behind it in the queue
\* or after it.
NextRead ==
    \/ /\ cpc \notin {"start_read", "reading"}
       /\ \/ OfferEventCall(1, ReadInputs)
          \/ offers = 0 /\ OfferExtendedEventCall(1, ReadInputs)
          \/ offers > 0 /\ OfferExtendedEventCall(1, ReadNextInputs)
          \/ ProducerStep(1)
    \/ WaitStep
    \/ StartRead
    \/ ReadByte
    \/ ReadUnsignedByte
    \/ ReadShort
    \/ ReadChar
    \/ ReadInt
    \/ ReadLong
    \/ Read
    \/ SkipBytes
    \/ EndRead

InitRead == Initialized(ReadQueueCapacity)

SpecRead == InitRead /\ [][NextRead]_vars

\* Short events only: LLEVENT_offerEvent, on the arguments below, and
\* LLEVENT_IMPL_wait_event.
ShortInputs ==
    [short |-> {<<0, 0>>, <<0, 16777215>>, <<1, 1>>, <<64, 8388608>>,
                <<127, 0>>, <<127, 16777215>>, <<128, 0>>, <<0, 16777216>>},
     max |-> ShortMaxOffers]

NextShort ==
    \/ \E p \in Producers :
        \/ OfferEventCall(p, ShortInputs)
        \/ MutexGet(p)
        \/ Send(p)
        \/ TestWaiting(p)
        \/ Resume(p)
        \/ ClearWaiting(p)
        \/ MutexPut(p)
    \/ WaitStep
    \/ SpuriousResume

InitShort == Initialized(ShortQueueCapacity)

SpecShort == InitShort /\ [][NextShort]_vars

\* The same with the threads scheduled: the event pump thread runs when it
\* is not suspended, and a call of a producer goes on to its return (the
\* mutex is granted to a waiting call once it is free for good).  The calls
\* themselves and the resumes from outside may or may not happen.
ShortFairness ==
    /\ WF_vars(WaitStep)
    /\ \A p \in Producers :
         WF_vars(MutexGet(p) \/ Send(p) \/ TestWaiting(p) \/ Resume(p)
                   \/ ClearWaiting(p) \/ MutexPut(p))

SpecShortFair == InitShort /\ [][NextShort]_vars /\ ShortFairness

\* ------------------------------------------------------------------------
\* Properties
\* ------------------------------------------------------------------------

\* Producer p takes a step of its call.
Steps(p) == <<pc[p], frame[p]>> # <<pc'[p], frame'[p]>>

\* The offer_extended_event call of p found the queue short of room.
Refused(p) ==
    frame[p].fn = "offer_extended_event" /\ frame[p].room = "short"

\* C1: an offer_extended_event call that finds fewer than
\* ceil(data_length / 4) + 1 free slots in the queue sends nothing: from
\* the test on, it has sent no word, none of its steps changes the queue,
\* and it returns ERR_FIFO_FULL.
C1_RefusedOfferSendsNothing ==
    [][\A p \in Producers :
         /\ pc[p] = "info" /\ Steps(p) /\ frame'[p].room = "short"
               => /\ event_queue' = event_queue
                  /\ frame'[p].offer_status = JFALSE
                  /\ pc'[p] \notin {"send_header", "send_data"}
         /\ Refused(p) /\ Steps(p)
               => /\ frame[p].sent = <<>>
                  /\ event_queue' = event_queue
                  /\ pc'[p] \notin {"send_header", "send_data"}
                  /\ pc'[p] = "idle" => status'[p] = "ERR_FIFO_FULL"]_vars

\* A refused call is about to return, and the queue holds the words of
\* other events with room for the header alone.
C1_Witness ==
    \E p \in Producers :
        /\ Refused(p)
        /\ pc[p] = "put"
        /\ frame[p].data_length_int > 0
        /\ Len(event_queue) = tx_queue_capacity - frame[p].data_length_int

\* The calls that are between tx_mutex_get and tx_mutex_put.
Locked ==
    {p \in Producers :
        pc[p] \in {"send", "info", "send_header", "send_data", "test",
                   "resume", "clear", "put"}}

\* Producer p has words of an extended event left to send.
MidEvent(p) == pc[p] = "send_data"

\* Producer q sends a word to the queue.
Sends(q) ==
    /\ frame[q].fn # "none"
    /\ frame'[q].fn # "none"
    /\ frame'[q].sent # frame[q].sent

\* The words of one event that are in the queue are next to each other, in
\* the order of their places.
Contiguous(q) ==
    \A i \in 1..Len(q) - 1 :
        \/ q[i + 1].ix = 0
        \/ q[i + 1].ev = q[i].ev /\ q[i + 1].ix = q[i].ix + 1

\* C2: between the header of an extended event and its last payload word
\* no other producer sends a word, so that the words of the event are
\* consecutive in the queue; at most one producer is between tx_mutex_get
\* and tx_mutex_put.
C2_EventWordsContiguous ==
    [][/\ \A p, q \in Producers :
            MidEvent(p) /\ q # p => ~Sends(q)
       /\ Cardinality(Locked') <= 1
       /\ Contiguous(event_queue')]_vars

\* A producer is between two words of its event while another one waits for
\* the mutex and the consumer has already taken the header.
C2_Witness ==
    \E p, q \in Producers :
        /\ MidEvent(p) /\ frame[p].i = 1
        /\ pc[q] = "get"
        /\ Len(event_queue) = 1
        /\ event_queue[1].ev = frame[p].ev

\* The word of event ev is in the queue.
InQueue(ev) == \E i \in 1..Len(event_queue) : event_queue[i].ev = ev

\* wait_event has returned the word of the offer_event call number ev.
Returned(ev) ==
    /\ rd.ev = ev
    /\ cpc # "wait_289"
    /\ event_message =
          BitOr(ShiftLeft(ToBits(rd.src.type), 24), ToBits(rd.src.data)) \ {31}

\* C3: no lost wake-up: the word a successful offer_event call has put in
\* the queue is eventually returned by wait_event, whatever the interleaving
\* of the event pump (register, receive, suspend) with the producers (send,
\* test, resume, clear) and with a resume nobody requested.
C3_NoLostWakeup ==
    \A ev \in 1..ShortMaxOffers : InQueue(ev) ~> Returned(ev)

\* C4: the bytes consumed never exceed the declared length: in every
\* reachable state offset_extended_data_read <= data_length_extended_data,
\* so that available() does not wrap around.
C4_ConsumedWithinLength ==
    offset_extended_data_read <= data_length_extended_data

\* The event pump reads, or has read, an extended event whose payload words
\* were all in the queue, with typed reads that all succeeded.
CleanTypedReads == rd.ev # 0 /\ rd.complete /\ rd.ok /\ rd.typed

\* C5: end_read leaves the queue at an event boundary: after successful
\* typed reads of an event of n bytes and end_read, exactly ceil(n / 4)
\* words were dequeued, all of them payload words of that event, and the
\* head of the queue, if any, is the first word of an event.
C5_EndReadCleanBoundary ==
    rd.ended /\ CleanTypedReads
        => /\ rd.words = (rd.src.data_length + 3) \div 4
           /\ ~rd.foreign
           /\ event_queue = <<>> \/ Head(event_queue).ix = 0

\* C6: typed reads whose sizes sum to the declared length n leave
\* available() at 0 with exactly the ceil(n / 4) payload words of the event
\* dequeued.
C6_ExactReadsReachZero ==
    /\ cpc = "reading"
    /\ CleanTypedReads
    /\ rd.sum = data_length_extended_data
    => /\ LLEVENT_IMPL_available(Decoder) = 0
       /\ rd.words = (data_length_extended_data + 3) \div 4
       /\ ~rd.foreign

\* wait_event has received the word of an offer_event call.
ShortReceived == rd.ev # 0 /\ rd.src.fn = "offer_event"

\* C7: short event round trip: the word wait_event receives for a successful
\* offer_event(type, data) has bit 31 clear, the type in bits 24..30 (w >> 24
\* = type) and the data in bits 0..23 (w & 0xFFFFFF = data).
C7_ShortEventRoundTrip ==
    ShortReceived
        => /\ 31 \notin event_message
           /\ FromBits(ShiftRight(event_message, 24)) = rd.src.type
           /\ FromBits(BitAnd(event_message, 0..23)) = rd.src.data

\* wait_event has returned the word of offer_event(127, 0xFFFFFF).
C7_Witness ==
    /\ ShortReceived
    /\ cpc = "wait_271"
    /\ rd.src.type = 127
    /\ rd.src.data = 16777215

\* Byte j of word w.
ByteOf(w, j) == FromBits(ShiftRight(BitAnd(w, (8 * j)..(8 * j + 7)), 8 * j))

\* The offer_extended_event call of p has sent all its words and succeeded.
Accepted(p) ==
    /\ frame[p].fn = "offer_extended_event"
    /\ pc[p] = "put"
    /\ frame[p].offer_status = JTRUE

\* C8: a successful offer_extended_event(type, data, data_length) has sent
\* exactly 1 + ceil(data_length / 4) words: the header
\* (1 << 31) | (type << 24) | data_length, then data[0], data[1], ... in
\* index order (word i holds the bytes 4i .. 4i + 3 of the block); the
\* header alone when data_length is 0.
C8_ExtendedEventWords ==
    \A p \in Producers :
        Accepted(p) =>
            LET f == frame[p]
                count == (f.data_length + 3) \div 4
            IN  /\ Len(f.sent) = 1 + count
                /\ f.sent[1] = {31} \cup {24 + b : b \in ToBits(f.type)}
                                    \cup ToBits(f.data_length)
                /\ \A i \in 0..count - 1, j \in 0..3 :
                      ByteOf(f.sent[i + 2], j) = f.event_data[4 * i + j]

\* A call with 5 bytes of payload, some of them above 127, has succeeded.
C8_Witness ==
    \E p \in Producers :
        /\ Accepted(p)
        /\ frame[p].data_length = 5
        /\ frame[p].event_data[0] = 255

\* The event pump reads an extended event whose payload words were all in
\* the queue, so far with successful reads of one byte only.
ByteReads ==
    cpc = "reading" /\ rd.ev # 0 /\ rd.complete /\ rd.ok /\ rd.bytes

\* Byte b as a jbyte.
AsByte(b) == IF b < 128 THEN b ELSE b - 256

\* C9: byte stream round trip: after start_read of an event offered with
\* the bytes b[0 .. n-1], the k-th read_byte returns b[k] (byte k % 4 of
\* payload word k / 4, least significant byte first) and available() goes
\* down by 1 per call, from n to 0.
C9_ByteStreamRoundTrip ==
    ByteReads =>
        LET n == rd.src.data_length
            k == rd.sum
            r == read_one_byte(Decoder)
        IN  /\ data_length_extended_data = n
            /\ LLEVENT_IMPL_available(Decoder) = n - k
            /\ k < n => /\ ~r.exc
                        /\ r.ret = AsByte(rd.src.data[k])
                        /\ LLEVENT_IMPL_available(r) = n - k - 1

\* The 7 bytes of an event, the first of them 255, have all been read.
C9_Witness ==
    /\ ByteReads
    /\ rd.src.data_length = 7
    /\ rd.sum = 7
    /\ rd.src.data[0] = 255

\* The call that went from d to r raised an exception, returned zero,
\* dequeued nothing and changed no field of the decoder.
FailedUntouched(d, r, zero) ==
    /\ r.exc
    /\ r.ret = zero
    /\ r.deq = <<>>
    /\ r.event_queue = d.event_queue
    /\ r.data_length_extended_data = d.data_length_extended_data
    /\ r.offset_extended_data_read = d.offset_extended_data_read
    /\ r.buffer_extended_data = d.buffer_extended_data
    /\ r.offset_buffer_extended_data = d.offset_buffer_extended_data
    /\ r.first_long_value = d.first_long_value
    /\ r.data_alignment = d.data_alignment

\* available() is smaller than size (both uint32_t).
TooShort(size) ==
    U32Lt(data_length_extended_data - offset_extended_data_read, size)

\* C10: underflow is detected before any mutation: whenever available() is
\* smaller than the size of a typed read (1, 2, 4, 8 bytes) or than the
\* length of a bulk read, the read raises the exception, returns 0,
\* dequeues no word and leaves every field of the decoder as it was.
C10_UnderflowBeforeMutation ==
    cpc = "reading" =>
        LET d == Decoder
        IN  /\ TooShort(1) => FailedUntouched(d, read_one_byte(d), 0)
            /\ TooShort(2) => FailedUntouched(d, read_two_bytes(d), 0)
            /\ TooShort(4) => FailedUntouched(d, read_four_bytes(d), 0)
            /\ TooShort(8) => FailedUntouched(d, read_eight_bytes(d), {})
            /\ \A off \in 0..1, len \in 0..ArrayLength :
                  TooShort(len) =>
                      FailedUntouched(d, LLEVENT_IMPL_read(d, ArrayLength,
                                                           off, len), 0)

\* A typed read has failed on an event whose words were all there, with 1
\* to 3 bytes left, some of them in the buffered word.
C10_Witness ==
    /\ cpc = "reading"
    /\ rd.ev # 0 /\ rd.complete /\ rd.typed /\ ~rd.ok
    /\ data_length_extended_data - offset_extended_data_read \in 1..3
    /\ offset_buffer_extended_data \in 1..3

\* C11: skip_bytes(n) with n > available() returns -1, dequeues no word and
\* leaves the declared length, the bytes consumed (hence available()), the
\* word buffer and the byte cursor as they were: there is no partial skip.
C11_SkipUnderflowUntouched ==
    cpc = "reading" =>
        \A n \in 0..ReadMaxLen + 1 :
            TooShort(n) =>
                LET d == Decoder
                    r == LLEVENT_IMPL_skip_bytes(d, n)
                IN  /\ r.ret = -1
                    /\ r.deq = <<>>
                    /\ r.event_queue = d.event_queue
                    /\ LLEVENT_IMPL_available(r) = LLEVENT_IMPL_available(d)
                    /\ r.data_length_extended_data = d.data_length_extended_data
                    /\ r.offset_extended_data_read = d.offset_extended_data_read
                    /\ r.buffer_extended_data = d.buffer_extended_data
                    /\ r.offset_buffer_extended_data =
                          d.offset_buffer_extended_data

\* Only skip_bytes was called on an event whose words were all there, one
\* call failed, and 1 or 2 bytes are left, in the buffered word.
C11_Witness ==
    /\ cpc = "reading"
    /\ rd.ev # 0 /\ rd.complete /\ rd.skips /\ ~rd.ok
    /\ data_length_extended_data - offset_extended_data_read \in 1..2
    /\ offset_buffer_extended_data \in 1..3

\* ------------------------------------------------------------------------
\* Bursts of short events: the producers make BurstMaxOffers valid
\* LLEVENT_offerEvent calls in all on a queue with room for all of them.
\* ------------------------------------------------------------------------

BurstInputs ==
    [short |-> {<<1, 1>>, <<127, 16777215>>}, max |-> BurstMaxOffers]

NextBurst ==
    \/ \E p \in Producers :
        \/ OfferEventCall(p, BurstInputs)
        \/ MutexGet(p)
        \/ Send(p)
        \/ TestWaiting(p)
        \/ Resume(p)
        \/ ClearWaiting(p)
        \/ MutexPut(p)
    \/ WaitStep
    \/ SpuriousResume

InitBurst == Initialized(BurstMaxOffers)

SpecBurst == InitBurst /\ [][NextBurst]_vars

\* The event pump has not received any word yet.
NothingDequeued == rd.ev = 0

\* C12: concurrent producers of short events lose nothing: as long as
\* nothing is dequeued, the queue holds one word for each offer_event call
\* that has passed its tx_queue_send, each word the encoded (type, data) of
\* a different call, and every call succeeds and returns NO_ERR.
C12_BurstLosesNothing ==
    NothingDequeued =>
        /\ Len(event_queue)
             = offers - Cardinality({p \in Producers : pc[p] \in {"get", "send"}})
        /\ \A i \in 1..Len(event_queue) :
             /\ event_queue[i].ev \in 1..offers
             /\ event_queue[i].w =
                  {24 + b : b \in ToBits(event_queue[i].src.type)}
                      \cup ToBits(event_queue[i].src.data)
             /\ \A j \in 1..Len(event_queue) :
                  event_queue[j].ev = event_queue[i].ev => j = i
        /\ \A p \in Producers :
             /\ pc[p] \in {"test", "resume", "clear", "put"}
                   => frame[p].offer_status = JTRUE
             /\ pc[p] = "idle" => status[p] \in {"none", "NO_ERR"}

\* All the calls of the burst have returned and their words, not all the
\* same, fill the queue.
C12_Witness ==
    /\ NothingDequeued
    /\ \A p \in Producers : pc[p] = "idle" /\ status[p] = "NO_ERR"
    /\ offers = BurstMaxOffers
    /\ Len(event_queue) = BurstMaxOffers
    /\ event_queue[1].w # event_queue[2].w

\* The event pump has called start_read for an extended event whose payload
\* words were all in the queue, and no other native since.
FreshRead ==
    /\ cpc = "reading"
    /\ rd.ev # 0 /\ rd.complete /\ rd.ok
    /\ rd.bytes /\ rd.skips

\* The 64-bit value whose byte k is b[k], as the set of its 1 bits.
LittleEndian8(b) == UNION {{8 * k + i : i \in ToBits(b[k])} : k \in 0..7}

\* C13: an 8-byte aligned read_long puts two consecutive words together,
\* the first one as the low half: right after start_read of an event of 8
\* bytes b[0..7], read_long returns the value whose byte k is b[k]
\* (0x0706050403020100 for the bytes 0..7), dequeues exactly the two payload
\* words of the event and leaves available() = 0.
C13_AlignedLong ==
    FreshRead /\ rd.src.data_length = 8 =>
        LET r == read_eight_bytes(Decoder)
        IN  /\ ~r.exc
            /\ r.ret = LittleEndian8(rd.src.data)
            /\ rd.src.data = [k \in 0..7 |-> k]
                  => r.ret = {8, 17, 24, 25, 34, 40, 42, 49, 50, 56, 57, 58}
            /\ Len(r.deq) = 2
            /\ \A k \in 1..2 : r.deq[k].ev = rd.ev /\ r.deq[k].ix = k
            /\ LLEVENT_IMPL_available(r) = 0

\* read_long has read the event of the bytes 0..7: two words were dequeued
\* and the first, 0x03020100, was kept as the low half.
C13_Witness ==
    /\ cpc = "reading"
    /\ CleanTypedReads
    /\ rd.src.data_length = 8
    /\ rd.src.data = [k \in 0..7 |-> k]
    /\ rd.sum = 8 /\ rd.words = 2
    /\ first_long_value = {8, 17, 24, 25}
    /\ offset_extended_data_read = 8

\* The offer_event call of p has been refused by the queue.
ShortRefused(p) ==
    frame[p].fn = "offer_event" /\ frame[p].offer_status = JFALSE

\* C14: offer_event on a full queue fails and leaves nothing behind: its
\* tx_queue_send on a full queue does not change the queue and clears
\* offer_status; no later step of the call changes the queue; the call
\* returns ERR_FIFO_FULL with the mutex released.
C14_FullQueueRefusesShort ==
    [][\A p \in Producers :
         /\ (/\ frame[p].fn = "offer_event"
             /\ pc[p] = "send" /\ Steps(p)
             /\ Len(event_queue) >= tx_queue_capacity)
               => event_queue' = event_queue /\ ShortRefused(p)'
         /\ (ShortRefused(p) /\ Steps(p))
               => /\ event_queue' = event_queue
                  /\ frame[p].sent = <<>>
                  /\ pc'[p] = "idle"
                        => /\ status'[p] = "ERR_FIFO_FULL"
                           /\ mutex_send_event' = 0]_vars

\* A refused offer_event call is about to release the mutex, the queue full.
C14_Witness ==
    \E p \in Producers :
        /\ ShortRefused(p)
        /\ pc[p] = "put"
        /\ mutex_send_event = p
        /\ Len(event_queue) = tx_queue_capacity

\* ------------------------------------------------------------------------
\* Producers and the state of the decoder
\* ------------------------------------------------------------------------

\* C15, as stated: no step of an offer_event or offer_extended_event call
\* changes a field of the decoder state: the declared length, the bytes
\* consumed, the word buffer, the byte cursor, the alignment phase, the
\* pending low word of a long, the id of the parked consumer.
C15_ProducersLeaveDecoderState ==
    [][\A p \in Producers :
         Steps(p) => UNCHANGED <<decoderVars, waiting_receive_java_thread_id>>]_vars

\* C15, amended: no step of an offer call changes the declared length, the
\* bytes consumed, the word buffer, the byte cursor, the alignment phase or
\* the pending low word; the id of the parked consumer is changed only by
\* the step after the resume, which sets it to SNI_ERROR.
C15_ProducersLeaveDecoderFields ==
    [][\A p \in Producers :
         Steps(p) =>
            /\ UNCHANGED decoderVars
            /\ waiting_receive_java_thread_id' # waiting_receive_java_thread_id
                 => /\ pc[p] = "clear"
                    /\ waiting_receive_java_thread_id' = SNI_ERROR]_vars

\* A producer has sent a word and is still in its call while the event pump
\* is part way through the payload of an extended event.
C15_Witness ==
    /\ cpc = "reading"
    /\ data_length_extended_data > 0
    /\ offset_extended_data_read > 0
    /\ \E p \in Producers :
         /\ frame[p].fn # "none"
         /\ frame[p].sent # <<>>
         /\ pc[p] \in {"clear", "put"}

\* ------------------------------------------------------------------------
\* The words a reader dequeues
\* ------------------------------------------------------------------------

\* The event pump is between start_read and end_read of an extended event
\* whose payload words were all in the queue, and has called typed reads
\* only.
TypedReading == cpc = "reading" /\ rd.ev # 0 /\ rd.complete /\ rd.typed

\* C16: between start_read(n) and end_read of an event whose ceil(n / 4)
\* payload words were enqueued, the typed reads dequeue at most ceil(n / 4)
\* words, every one the next payload word of that event, and a typed read
\* that passes its test of available() does not find the queue empty.
C16_DequeuesWithinEvent ==
    TypedReading
        => /\ rd.words <= WordCount(rd.src.data_length)
           /\ ~rd.foreign
           /\ ~Underflow(Decoder, 1) => ~read_one_byte(Decoder).exc
           /\ ~Underflow(Decoder, 2) => ~read_two_bytes(Decoder).exc
           /\ ~Underflow(Decoder, 4) => ~read_four_bytes(Decoder).exc
           /\ ~Underflow(Decoder, 8) => ~read_eight_bytes(Decoder).exc

\* ------------------------------------------------------------------------
\* Notification of the event pump
\* ------------------------------------------------------------------------

\* The call of p has failed: it will return false (ERR_FIFO_FULL).
Failed(p) == frame[p].fn # "none" /\ frame[p].offer_status = JFALSE

\* C17: a producer wakes the parked consumer only on success: no step of
\* an offer_event or offer_extended_event call that has failed is the call
\* of SNI_resumeJavaThread, and none changes
\* waiting_receive_java_thread_id.
C17_FailedOfferWakesNobody ==
    [][\A p \in Producers :
         Failed(p) /\ Steps(p)
            => /\ pc[p] # "resume"
               /\ UNCHANGED waiting_receive_java_thread_id]_vars

\* C18: once offer_extended_event has passed its test of the free slots
\* with the mutex held, every tx_queue_send of its header and payload words
\* succeeds: at each send the queue has room and offer_status is still
\* JTRUE; a call that has failed failed at the test, with fewer than
\* ceil(length / 4) + 1 free slots, and has sent no word.
C18_SendsAfterTestSucceed ==
    \A p \in Producers :
        frame[p].fn = "offer_extended_event"
            => /\ pc[p] \in {"send_header", "send_data"}
                    => /\ frame[p].room = "enough"
                       /\ frame[p].offer_status = JTRUE
                       /\ QueueSendOk(event_queue)
               /\ frame[p].offer_status = JFALSE
                    => /\ frame[p].room = "short"
                       /\ frame[p].sent = <<>>

\* A producer is about to send the payload word that fills the queue while
\* the other producer waits for the mutex.
C18_Witness ==
    \E p, q \in Producers :
        /\ pc[p] = "send_data"
        /\ frame[p].i >= 1
        /\ Len(event_queue) = tx_queue_capacity - 1
        /\ pc[q] = "get"

\* C19: when wait_event returns a word it dequeued, the slot
\* waiting_receive_java_thread_id is empty (SNI_ERROR), and it stays empty
\* until the next call of wait_event: it is empty while the event pump
\* reads an extended event, only the first statement of wait_event makes
\* it non-empty, and it never holds anything but SNI_ERROR or the id of the
\* event pump thread.
C19_SlotEmptyOutsideWaitEvent ==
    [][/\ (cpc = "wait_289" /\ cpc' # cpc)
            => waiting_receive_java_thread_id' = SNI_ERROR
       /\ cpc' \in {"start_read", "reading"}
            => waiting_receive_java_thread_id' = SNI_ERROR
       /\ (/\ waiting_receive_java_thread_id' # SNI_ERROR
           /\ waiting_receive_java_thread_id' # waiting_receive_java_thread_id)
            => /\ cpc = "wait_271"
               /\ cpc' = "wait_276"
               /\ waiting_receive_java_thread_id' = JavaThreadID]_vars

\* wait_event has returned the header of an extended event after a producer
\* found the event pump registered: the producer is about to resume it, or
\* has just done so.
C19_Witness ==
    /\ cpc \in {"start_read", "reading"}
    /\ waiting_receive_java_thread_id = SNI_ERROR
    /\ \E p \in Producers : pc[p] \in {"resume", "clear"}

\* C20: in a successful offer_event or offer_extended_event the parked
\* consumer is resumed after the mutex is released: the call of
\* SNI_resumeJavaThread is never made by a producer that holds
\* mutex_send_event.
C20_ResumeAfterMutexPut ==
    [][\A p \in Producers :
         (/\ frame[p].fn # "none"
          /\ frame[p].offer_status = JTRUE
          /\ pc[p] = "resume"
          /\ pc'[p] = "clear")
            => mutex_send_event # p]_vars

\* ------------------------------------------------------------------------
\* Termination of the offer calls
\* ------------------------------------------------------------------------

\* The threads of the producers are scheduled: a call in progress takes its
\* next step (tx_mutex_get with TX_WAIT_FOREVER is granted once the mutex
\* is free; every tx_queue_send is TX_NO_WAIT).  The calls themselves, the
\* event pump and the resumes from outside may or may not happen.
ProducerFairness == \A p \in Producers : WF_vars(ProducerStep(p))

SpecFair == Init /\ [][Next]_vars /\ ProducerFairness

\* C21: every offer_event and offer_extended_event call returns, on every
\* path, with the mutex released: a call in progress leads to its return,
\* and mutex_send_event is free whenever no producer is inside a call.
C21_OfferCallsReturn ==
    /\ [](\A p \in Producers :
            pc[p] = "idle" => mutex_send_event # p)
    /\ []((\A p \in Producers : pc[p] = "idle") => mutex_send_event = 0)
    /\ \A p \in Producers : (pc[p] # "idle") ~> (pc[p] = "idle")

\* Both producers have returned, one with its event sent and one refused,
\* and the mutex is free.
C21_Witness ==
    /\ \A p \in Producers : pc[p] = "idle"
    /\ mutex_send_event = 0
    /\ \E p, q \in Producers :
         status[p] = "NO_ERR" /\ status[q] = "ERR_FIFO_FULL"

\* ------------------------------------------------------------------------
\* Alignment of the typed reads
\* ------------------------------------------------------------------------

\* The event pump is between start_read and end_read of an extended event
\* whose payload words were all in the queue.
ReadingEvent == cpc = "reading" /\ rd.ev # 0 /\ rd.complete

\* The bytes of a partly read buffered word, which read_int and read_long
\* abandon.
Abandoned(d) ==
    IF d.offset_buffer_extended_data \in 0..3
    THEN 4 - d.offset_buffer_extended_data ELSE 0

\* C22: a read_long that returns a value has abandoned the buffered word,
\* discarded one more word exactly when an odd number of payload words had
\* been dequeued since start_read, and then dequeued two words: payload
\* words 2k and 2k+1 of the event being read, the low and the high half of
\* the value; the abandoned and discarded bytes are counted in
\* offset_extended_data_read.
C22_LongFromWordPair ==
    ReadingEvent =>
        LET d == Decoder
            r == read_eight_bytes(d)
            n == Len(r.deq)
        IN  ~r.exc =>
              /\ n = IF rd.words % 2 = 1 THEN 3 ELSE 2
              /\ r.deq[n - 1].ev = rd.ev
              /\ r.deq[n].ev = rd.ev
              /\ r.deq[n - 1].ix % 2 = 1
              /\ r.deq[n].ix = r.deq[n - 1].ix + 1
              /\ r.ret = LongValue(r.deq[n - 1].w, r.deq[n].w)
              /\ r.offset_extended_data_read =
                    d.offset_extended_data_read + Abandoned(d) + 4 * n
              /\ r.offset_buffer_extended_data = -1

\* C23: the alignment is switched by every successful dequeue of read_byte,
\* read_short, read_int, read_long, read and skip_bytes: from start_read
\* on, through end_read, data_alignment is 1 (8 bytes aligned) exactly when
\* an even number of words has been dequeued since start_read.
C23_AlignmentIsParity ==
    (cpc = "reading" \/ rd.ended)
        => (data_alignment = 1 <=> rd.words % 2 = 0)

\* Three words were dequeued by successful reads, the last of them by a
\* read_int or read_long, and the data is 4 bytes aligned.
C23_Witness ==
    /\ cpc = "reading"
    /\ rd.ok
    /\ rd.words = 3
    /\ offset_buffer_extended_data = -1
    /\ data_alignment = 0

\* C24: read_int never spans two words: a read_int that returns a value
\* has counted the unread bytes of a partly read buffered word in
\* offset_extended_data_read, has dequeued one word, the head of the queue,
\* and returned its 32 bits unchanged, and leaves the buffer empty
\* (offset_buffer_extended_data = -1, buffer_extended_data = 0).
C24_IntIsOneWholeWord ==
    cpc = "reading" =>
        LET d == Decoder
            r == read_four_bytes(d)
        IN  ~r.exc =>
              /\ Len(r.deq) = 1
              /\ r.deq[1] = Head(d.event_queue)
              /\ r.event_queue = Tail(d.event_queue)
              /\ r.ret = ToSigned(Head(d.event_queue).w, 32)
              /\ r.offset_extended_data_read =
                    d.offset_extended_data_read + Abandoned(d) + 4
              /\ r.offset_buffer_extended_data = -1
              /\ r.buffer_extended_data = {}

\* A read_int has returned a word after abandoning three bytes of the
\* buffered word: two words dequeued, 8 bytes consumed, buffer empty.
C24_Witness ==
    /\ cpc = "reading"
    /\ rd.ok /\ rd.typed /\ ~rd.foreign
    /\ rd.sum = 5
    /\ rd.words = 2
    /\ offset_extended_data_read = 8
    /\ offset_buffer_extended_data = -1

\* ------------------------------------------------------------------------
\* An extended event that is started and not ended
\* ------------------------------------------------------------------------

\* The event pump leaves an extended event without calling
\* LLEVENT_IMPL_end_read_extended_data and waits for the next event.
AbandonRead ==
    /\ cpc = "reading"
    /\ cpc' = "wait_271"
    /\ UNCHANGED <<queueVars, decoderVars, producerVars, event_message, rd,
                   spurious>>

AbandonInputs ==
    [short |-> {<<5, 66051>>},
     types |-> {127}, lens |-> {2, 5}, patterns |-> {1},
     max |-> ReadMaxOffers]

\* One producer and the event pump, which reads bytes and ints of an
\* extended event and ends the event or leaves it as it is.
NextAbandon ==
    \/ /\ cpc \notin {"start_read", "reading"}
       /\ \/ OfferEventCall(1, AbandonInputs)
          \/ OfferExtendedEventCall(1, AbandonInputs)
          \/ ProducerStep(1)
    \/ WaitStep
    \/ StartRead
    \/ ReadByte
    \/ ReadInt
    \/ EndRead
    \/ AbandonRead

InitAbandon == Initialized(ReadQueueCapacity)

SpecAbandon == InitAbandon /\ [][NextAbandon]_vars

\* C25: immediately after start_read(n), whatever came before, available()
\* is n, the data is 8 bytes aligned and the buffer is empty
\* (offset_buffer_extended_data = -1), so that the first read of the event
\* dequeues a word.
C25_StartReadFromEmptyBuffer ==
    [][(cpc = "start_read" /\ cpc' = "reading")
          => /\ LLEVENT_IMPL_available(Decoder)' =
                  FromBits(BitAnd(event_message, DATA_LENGTH_MASK))
             /\ data_alignment' = 1
             /\ offset_buffer_extended_data' = -1
             /\ (event_queue' # <<>> /\ data_length_extended_data' > 0)
                   => read_one_byte(Decoder)'.deq # <<>>]_vars

\* ------------------------------------------------------------------------
\* The decoder after end_read
\* ------------------------------------------------------------------------

\* What a caller sees of a native call that ended in state r, and the
\* statics a later call reads before it writes them.
Observable(r) ==
    [ret |-> r.ret, exc |-> r.exc, deq |-> r.deq,
     event_queue |-> r.event_queue,
     data_length_extended_data |-> r.data_length_extended_data,
     offset_extended_data_read |-> r.offset_extended_data_read,
     buffer_extended_data |-> r.buffer_extended_data,
     offset_buffer_extended_data |-> r.offset_buffer_extended_data,
     data_alignment |-> r.data_alignment]

\* The decoder with the values LLEVENT_IMPL_initialize gives its statics.
FreshDecoder ==
    [Decoder EXCEPT !.data_length_extended_data = 0,
                    !.offset_extended_data_read = 0,
                    !.buffer_extended_data = {},
                    !.offset_buffer_extended_data = -1,
                    !.first_long_value = {},
                    !.data_alignment = 0]

\* The four fields end_read resets.
EndedClean ==
    /\ data_length_extended_data = 0
    /\ offset_extended_data_read = 0
    /\ buffer_extended_data = {}
    /\ offset_buffer_extended_data = -1

\* C26, as stated: after end_read, whether its drain succeeded or not, the
\* declared length and the bytes consumed are 0, the buffer is cleared, the
\* cursor is -1 and the pending low word of a long is reset.
C26_EndReadResetsAll ==
    rd.ended => EndedClean /\ first_long_value = {}

\* C26, amended: after end_read, whether its drain succeeded or not, the
\* declared length and the bytes consumed are 0, the buffer is cleared and
\* the cursor is -1; first_long_value and data_alignment keep their values,
\* and a start_read(n) followed by any read or skip gives what it gives on
\* a freshly initialised decoder (n: none, less than a word, two words).
C26_EndReadLeavesUsableDecoder ==
    rd.ended =>
        /\ EndedClean
        /\ \A n \in {0, 3, ReadMaxLen} :
             LET a == LLEVENT_IMPL_start_read_extended_data(Decoder, n)
                 f == LLEVENT_IMPL_start_read_extended_data(FreshDecoder, n)
             IN  /\ Observable(a) = Observable(f)
                 /\ Observable(read_one_byte(a)) = Observable(read_one_byte(f))
                 /\ Observable(read_two_bytes(a)) = Observable(read_two_bytes(f))
                 /\ Observable(read_four_bytes(a)) = Observable(read_four_bytes(f))
                 /\ read_eight_bytes(a) = read_eight_bytes(f)
                       \/ /\ read_eight_bytes(a).exc
                          /\ Observable(read_eight_bytes(a))
                               = Observable(read_eight_bytes(f))
                 /\ \A k \in 0..MaxSkip :
                      Observable(LLEVENT_IMPL_skip_bytes(a, k))
                        = Observable(LLEVENT_IMPL_skip_bytes(f, k))

\* end_read has returned after a read_long and after words that were not
\* of the event had been dequeued: its drain ran into the empty queue.
C26_Witness ==
    /\ rd.ended
    /\ rd.foreign
    /\ first_long_value # {}
    /\ event_queue = <<>>

\* C27: word accounting: between start_read and end_read, after calls of
\* read_byte, read_short, read_int, read_long, read and skip_bytes that all
\* succeeded, the number of words dequeued since start_read is
\* ceil(offset_extended_data_read / 4), and when a word is buffered
\* offset_buffer_extended_data is congruent to offset_extended_data_read
\* modulo 4.  (A call that fails its test of available() changes nothing:
\* C10, C11.)
C27_WordAccounting ==
    (cpc = "reading" /\ rd.ev # 0 /\ rd.ok)
        => /\ rd.words = WordCount(offset_extended_data_read)
           /\ offset_buffer_extended_data # -1
                => /\ offset_buffer_extended_data \in 0..4
                   /\ offset_buffer_extended_data % 4
                        = offset_extended_data_read % 4

\* Three read_byte and a read_short: the short is read from the second
\* word, after one byte of padding.
C27_Witness ==
    /\ cpc = "reading"
    /\ rd.ev # 0 /\ rd.ok /\ rd.typed
    /\ rd.sum = 5
    /\ rd.words = 2
    /\ offset_extended_data_read = 6
    /\ offset_buffer_extended_data = 2

\* ------------------------------------------------------------------------
\* Delivery of the events
\* ------------------------------------------------------------------------

\* Producers and event pump run concurrently; the event pump reads an
\* extended event byte by byte, which never takes it past the declared
\* length, and always ends it with end_read.
NextDeliver ==
    \/ \E p \in Producers :
        \/ OfferEventCall(p, Inputs)
        \/ OfferExtendedEventCall(p, Inputs)
        \/ ProducerStep(p)
    \/ WaitStep
    \/ StartRead
    \/ ReadByte
    \/ EndRead
    \/ SpuriousResume

SpecDeliver == Init /\ [][NextDeliver]_vars

\* C28: exactly-once in-order delivery, when the reads of every extended
\* event stay within its declared length and the event is closed with
\* end_read: the word wait_event returns
\* is the first word of an offered event (a short event or a header), never
\* a payload word, and the reader dequeues payload words of the event it
\* reads only, so that no first word is lost.
C28_WaitEventReturnsEventWords ==
    /\ cpc = "wait_289" => rd.ev # 0
    /\ rd.ev # 0 => ~rd.foreign

\* C29: no check-then-use race on the slot: from the test of a producer
\* that found waiting_receive_java_thread_id set to its call of
\* SNI_resumeJavaThread the slot is not changed, and the producer never
\* calls SNI_resumeJavaThread with SNI_ERROR.
C29_SlotStableUntilResume ==
    \A p \in Producers :
        /\ pc[p] = "resume" => waiting_receive_java_thread_id # SNI_ERROR
        /\ frame[p].fn # "none" => frame[p].resumed # SNI_ERROR

=============================================================================
